---- MODULE Spec2Model ----
(***************************************************************************)
(* Model of vim/autoload/merlin.py: the editor side of the merlin          *)
(* protocol.  The module state of merlin.py (mainpipe, flags, saved_sync,  *)
(* enclosing_types, current_enclosing) is the model state; the editor      *)
(* (current buffer, its length and change counter) and the ocamlmerlin     *)
(* subprocess (its answers) are the environment.  The program is single    *)
(* threaded: one handler runs at a time, and pc is its position.  Every    *)
(* step that talks to the subprocess is one send_command exchange whose    *)
(* response line is drawn from a small set.                                *)
(***************************************************************************)
EXTENDS Integers, Sequences, FiniteSets, TLC

VARIABLES
  mainpipe,          \* merlin.py:33  "none" | "running" | "exited" | "reaped"
  flags,             \* merlin.py:11  startup arguments
  procs,             \* the subprocesses this session spawned, as the OS has them
  saved_sync,        \* merlin.py:34  None or the token of the last sync
  enclosing_types,   \* merlin.py:13
  current_enclosing, \* merlin.py:14
  bufnr,             \* vim.current.buffer.number
  buflen,            \* len(buffer), per buffer
  tick,              \* change counter of each buffer (vimbufsync revision)
  pc,                \* position of the running handler, "idle" when none runs
  stack,             \* frames of the handlers that are running
  sync,              \* locals of the running sync_buffer_to, NoSync when none
  log,               \* commands written since the running sync started
  last,              \* the last line read from the subprocess and its outcome
  out,               \* how the handler ended (value at pc = "done")
  emitted,           \* what the running handler printed / highlighted
  hist               \* history of the session, read by the properties only

vars == << mainpipe, flags, procs, saved_sync, enclosing_types, current_enclosing,
           bufnr, buflen, tick, pc, stack, sync, log, last, out, emitted,
           hist >>

----------------------------------------------------------------------------
(* Bounds of the model *)

MaxLines == 22
MaxTick == 1
MaxCol == 1
MaxFrames == 2
MaxFlags == 1

(* The feed window of sync_buffer_to *)
Window == 20

Bufs == {1, 2}
Cols == 0 .. MaxCol

Min(a, b) == IF a < b THEN a ELSE b
Max(a, b) == IF a < b THEN b ELSE a

----------------------------------------------------------------------------
(* Python values that cross the protocol *)

None == [t |-> "none"]
PyBool(b) == [t |-> "bool", v |-> b]
Position(l, c) == [t |-> "pos", line |-> l, col |-> c]
Detail == [t |-> "detail"]
TypeStr == [t |-> "str"]
Enclosing(fs) == [t |-> "enclosing", frames |-> fs]

(* Python truth value of a payload: None and False are falsy *)
Truthy(v) == CASE v.t = "none" -> FALSE
               [] v.t = "bool" -> v.v
               [] OTHER -> TRUE

(* A buffer revision as vimbufsync.sync() returns it *)
Token(b, r) == [t |-> "sync", bufnr |-> b, rev |-> r]

(* Lists of buffer lines: the text of line `line` from column `col` on,    *)
(* then the whole lines up to `last`; the empty list; None                 *)
Lines(l, c, e) == [t |-> "lines", line |-> l, col |-> c, last |-> e]
Empty == [t |-> "empty"]

(* cb[a:b] of a buffer of n lines: lines a+1 .. min(b, n) *)
Slice(a, b, n) == IF Min(b, n) <= a THEN Empty ELSE Lines(a + 1, 0, Min(b, n))

(* Line 194 without the test *)
NonEmpty_untested(content) == TRUE

(* `if content:` *)
NonEmpty(content) == content.t = "lines"

----------------------------------------------------------------------------
(* What the subprocess may answer: one line holding a 1- or 2-element list *)

Tags == {"return", "failure", "error", "exception"}
BadTag == "notify"
Frames == 1 .. MaxFrames
FrameSeqs ==
  {fs \in UNION {[1 .. n -> Frames] : n \in 0 .. MaxFrames} :
     \A i, j \in 1 .. Len(fs) : fs[i] = fs[j] => i = j}
SeekLines == {1, 2, MaxLines}

Payloads(name) ==
  CASE name = "tell" -> {PyBool(TRUE), PyBool(FALSE)}
    [] name = "seek" -> {Position(l, c) : l \in SeekLines, c \in Cols}
    [] name = "exact" -> {Position(1, 0)}
    [] name = "reset" -> {Position(1, 0)}
    [] name = "enclosing" -> {Enclosing(fs) : fs \in FrameSeqs}
    [] name = "type" -> {TypeStr}
    [] OTHER -> {None}

(* Every command may get each of the four tags and an unknown one; the    *)
(* 1-element forms are drawn where the code reads the payload.            *)
Responses(name) ==
  {<<"return", p>> : p \in Payloads(name)}
    \cup {<<tag, Detail>> : tag \in {"failure", "error", "exception", BadTag}}
    \cup IF name \in {"seek", "reset", "enclosing", "type"}
           THEN {<<"return">>, <<"error">>} ELSE {}

----------------------------------------------------------------------------
(* COMMUNICATION *)

Raised(kind, value) == [kind |-> kind, value |-> value]
Returned(value) == [kind |-> "return", value |-> value]
MerlinExc == {"Failure", "Error", "MerlinException"}

(* What the operating system holds of the subprocesses: the arguments the  *)
(* live process behind mainpipe was launched with (empty when mainpipe is  *)
(* not a live process), and how many processes that mainpipe no longer     *)
(* refers to are still alive.                                              *)
NoProcs == [args |-> <<>>, orphans |-> 0]
Live(mp, pr) == pr.orphans + (IF mp = "running" THEN 1 ELSE 0)

(* What the operating system may do during one restart(): terminate()      *)
(* sends the signal or raises OSError, communicate() waits for the exit    *)
(* or raises OSError, Popen spawns or raises OSError.                      *)
OsOutcome(t, w, sp) == [term |-> t, wait |-> w, spawn |-> sp]

(* restart() without lines 37-45 *)
stop_skipped(mp, os) == mp

(* Lines 37-45: the Popen object after terminate() and communicate(), both *)
(* OSErrors swallowed.  communicate() returning sets returncode.  When it  *)
(* raises, returncode stays unset and the process is gone all the same: it *)
(* got the signal, or terminate() raised because the process no longer     *)
(* exists (kill fails with ESRCH).                                         *)
stop(mp, os) ==
  CASE mp \in {"none", "reaped"} -> mp
    [] os.wait -> "reaped"
    [] OTHER -> "exited"

(* restart() without command.extend(flags) of line 48 *)
restart_without_flags(mp, pr, fl, os) ==
  LET old == stop(mp, os)
      left == pr.orphans + (IF old = "running" THEN 1 ELSE 0)
  IN IF os.spawn
       THEN [mainpipe |-> "running", procs |-> [args |-> <<>>, orphans |-> left],
             raised |-> FALSE]
       ELSE [mainpipe |-> old,
             procs |-> IF old = "running" THEN pr ELSE [pr EXCEPT !.args = <<>>],
             raised |-> TRUE]

(* restart(): lines 37-45, then ocamlmerlin is spawned with the flags.  A  *)
(* failed spawn prints, raises OSError and leaves mainpipe the old object. *)
restart(mp, pr, fl, os) ==
  LET old == stop(mp, os)
      left == pr.orphans + (IF old = "running" THEN 1 ELSE 0)
  IN IF os.spawn
       THEN [mainpipe |-> "running", procs |-> [args |-> fl, orphans |-> left],
             raised |-> FALSE]
       ELSE [mainpipe |-> old,
             procs |-> IF old = "running" THEN pr ELSE [pr EXCEPT !.args = <<>>],
             raised |-> TRUE]

(* Outcome with the failure and error branches exchanged *)
OutcomeSwapped(result) ==
  LET content == IF Len(result) = 2 THEN result[2] ELSE None
  IN CASE result[1] = "return" -> Returned(content)
       [] result[1] = "failure" -> Raised("Error", content)
       [] result[1] = "error" -> Raised("Failure", content)
       [] result[1] = "exception" -> Raised("MerlinException", content)
       [] OTHER -> Returned(None)

(* Lines 66-78 of send_command: the outcome of a parsed response *)
Outcome(result) ==
  LET content == IF Len(result) = 2 THEN result[2] ELSE None
  IN CASE result[1] = "return" -> Returned(content)
       [] result[1] = "failure" -> Raised("Failure", content)
       [] result[1] = "error" -> Raised("Error", content)
       [] result[1] = "exception" -> Raised("MerlinException", content)
       [] OTHER -> Returned(None)

(* send_command: respawn when there is no process or its returncode     *)
(* is set, write the command, read one line.  A process that died without  *)
(* being waited for has returncode None: writing to it or parsing its      *)
(* empty answer raises (IOError / ValueError).                             *)
send_command(mp, pr, fl, spawnOK, result) ==
  LET respawn == mp \in {"none", "reaped"}
      started == IF respawn THEN restart(mp, pr, fl, OsOutcome(TRUE, TRUE, spawnOK))
                 ELSE [mainpipe |-> mp, procs |-> pr, raised |-> FALSE]
      spawn == IF ~respawn THEN "none"
               ELSE IF started.raised THEN "failed" ELSE "ok"
  IN IF started.raised
       THEN [mainpipe |-> started.mainpipe, procs |-> started.procs,
             restarted |-> FALSE, spawn |-> spawn,
             wrote |-> FALSE, out |-> Raised("OSError", None)]
     ELSE IF started.mainpipe = "exited"
       THEN [mainpipe |-> "exited", procs |-> started.procs,
             restarted |-> FALSE, spawn |-> spawn,
             wrote |-> FALSE, out |-> Raised("PyError", None)]
     ELSE [mainpipe |-> "running", procs |-> started.procs,
           restarted |-> respawn, spawn |-> spawn,
           wrote |-> TRUE, out |-> Outcome(result)]

(* command_reset without line 126 *)
command_reset_keeps_mark(ss, o) == ss

(* command_reset: saved_sync after the call, given how send_command ended *)
command_reset(ss, o) == IF o.kind = "return" THEN None ELSE ss

(* command_seek_before / command_seek_exact: position['line'] and          *)
(* position['col'] of the answer; anything but a Position raises TypeError *)
command_seek(o) ==
  IF o.kind # "return" THEN o
  ELSE IF o.value.t = "pos" THEN o
  ELSE Raised("PyError", None)

(* An entry of the log: the command written *)
Cmd(name, kind, arg) == [name |-> name, kind |-> kind, arg |-> arg]
Logged(lg, x, cmd) == IF x.wrote THEN Append(lg, cmd) ELSE lg

(* The line send_command read, if it got to read one, how it ended, the    *)
(* spawn it attempted ("none", "ok", "failed") and the arguments of the    *)
(* process that answered                                                   *)
Exchange(x, result) ==
  [result |-> IF x.wrote THEN result ELSE <<>>, out |-> x.out,
   spawn |-> x.spawn, by |-> IF x.wrote THEN x.procs.args ELSE <<>>]
NoExchange == [result |-> <<>>, out |-> Returned(None), spawn |-> "none",
               by |-> <<>>]

(* The spawn is an input only when send_command has to respawn *)
SpawnInputs == IF mainpipe \in {"none", "reaped"} THEN BOOLEAN ELSE {TRUE}

(* terminate() and communicate() are inputs only when mainpipe is a        *)
(* process that was not waited for                                         *)
RestartInputs ==
  {os \in {OsOutcome(t, w, sp) : t, w, sp \in BOOLEAN} :
     mainpipe \in {"none", "reaped"} => (os.term /\ os.wait)}

----------------------------------------------------------------------------
(* ENCLOSING TYPES: the two steppers as functions of the module state *)

Emit(what, idx, text, approx) ==
  [what |-> what, idx |-> idx, text |-> text, approx |-> approx]

(* Line 298 with the list taken in reverse *)
result_1_reversed(v) ==
  [i \in 1 .. Len(v.frames) |-> v.frames[Len(v.frames) + 1 - i]]

(* Line 298: result[1], the list of frames in the answer *)
result_1(v) == v.frames

(* vim_next_enclosing with <= for < on line 336 *)
vim_next_enclosing_past_end(types, cur) ==
  IF types # <<>>
    THEN LET c1 == IF cur <= Len(types) THEN cur + 1 ELSE cur
         IN [cur |-> c1,
             emit |-> IF c1 < Len(types)
                        THEN <<Emit("frame", c1, types[c1 + 1], FALSE)>>
                        ELSE <<>>]
    ELSE [cur |-> cur, emit |-> <<>>]

(* vim_next_enclosing without the test of line 334 *)
vim_next_enclosing_unguarded(types, cur) ==
  LET c1 == IF cur < Len(types) THEN cur + 1 ELSE cur
  IN [cur |-> c1,
      emit |-> IF c1 < Len(types)
                 THEN <<Emit("frame", c1, types[c1 + 1], FALSE)>>
                 ELSE <<>>]

(* vim_next_enclosing: the new index and what is printed and highlighted *)
vim_next_enclosing(types, cur) ==
  IF types # <<>>
    THEN LET c1 == IF cur < Len(types) THEN cur + 1 ELSE cur
         IN [cur |-> c1,
             emit |-> IF c1 < Len(types)
                        THEN <<Emit("frame", c1, types[c1 + 1], FALSE)>>
                        ELSE <<>>]
    ELSE [cur |-> cur, emit |-> <<>>]

(* vim_prev_enclosing with > for >= on line 347: it stops at index 0 *)
vim_prev_enclosing_stops_at_0(types, cur) ==
  IF types # <<>>
    THEN LET c1 == IF cur > 0 THEN cur - 1 ELSE cur
         IN [cur |-> c1,
             emit |-> IF c1 >= 0
                        THEN <<Emit("frame", c1, types[c1 + 1], FALSE)>>
                        ELSE <<>>]
    ELSE [cur |-> cur, emit |-> <<>>]

(* vim_prev_enclosing *)
vim_prev_enclosing(types, cur) ==
  IF types # <<>>
    THEN LET c1 == IF cur >= 0 THEN cur - 1 ELSE cur
         IN [cur |-> c1,
             emit |-> IF c1 >= 0
                        THEN <<Emit("frame", c1, types[c1 + 1], FALSE)>>
                        ELSE <<>>]
    ELSE [cur |-> cur, emit |-> <<>>]

----------------------------------------------------------------------------
(* CONTROL: the frames of the running handlers, how a call returns into    *)
(* its caller and how an exception unwinds.  A frame holds the function,   *)
(* the line it is at, its arguments (expr given or not, is_approx) and the *)
(* cursor it read from vim.current.window.cursor.                          *)

Frame(fn, at, expr, approx, l, c) ==
  [fn |-> fn, at |-> at, expr |-> expr, approx |-> approx,
   line |-> l, col |-> c]
At(f, n) == [f EXCEPT !.at = n]
Top(stk) == stk[Len(stk)]
Pop(stk) == SubSeq(stk, 1, Len(stk) - 1)
Cont(go, stk, o, pr) == [go |-> go, stack |-> stk, out |-> o, print |-> pr]

(* try_print_error(e): an Error prints e.value['message'], which raises    *)
(* TypeError when the response carried no payload; the others print str(e) *)
try_print_error(exc) ==
  IF exc.kind = "Error" /\ exc.value.t = "none"
    THEN [raised |-> TRUE, print |-> <<>>]
    ELSE [raised |-> FALSE, print |-> <<Emit("error", -1, exc.kind, FALSE)>>]

RECURSIVE Return(_, _)
RECURSIVE Propagate(_, _, _)

(* The callee of the top frame returned normally *)
Return(stk, pr) ==
  IF stk = <<>> THEN Cont("done", <<>>, Returned(None), pr)
  ELSE LET f == Top(stk)
           rest == Pop(stk)
       IN CASE f.fn = "vim_type_enclosing" /\ f.at = 295 ->
                 Cont("query297", Append(rest, At(f, 297)), out, pr)
            [] f.fn = "vim_type" /\ f.at = 271 ->
                 Cont("type275", Append(rest, At(f, 275)), out, pr)
            [] f.fn = "load_project" /\ f.at = 441 ->
                 Cont("reset443", Append(rest, At(f, 443)), out, pr)
            [] OTHER -> Return(rest, pr)

(* Exception exc was raised at the line the top frame is at *)
Propagate(stk, exc, pr) ==
  IF stk = <<>> THEN Cont("done", <<>>, exc, pr)
  ELSE LET f == Top(stk)
           rest == Pop(stk)
       IN CASE f.fn = "vim_type_enclosing" /\ f.at \in {297, 300}
                 /\ exc.kind \in MerlinExc ->
                 \* except MerlinExc: vim_type(expr=expr, is_approx=True)
                 Cont("sync", rest \o << At(f, 304),
                        Frame("vim_type", 271, f.expr, TRUE, f.line, f.col) >>,
                      out, pr)
            [] f.fn = "vim_type" /\ f.at = 275 /\ exc.kind \in MerlinExc ->
                 IF f.expr
                   THEN \* vim_type(expr=None, is_approx=True)
                     Cont("sync", rest \o << At(f, 284),
                            Frame("vim_type", 271, FALSE, TRUE, f.line, f.col) >>,
                          out, pr)
                   ELSE LET r == try_print_error(exc)
                        IN IF r.raised
                             THEN Propagate(rest, Raised("PyError", None), pr)
                             ELSE Return(rest, pr \o r.print)
            [] OTHER -> Propagate(rest, exc, pr)

----------------------------------------------------------------------------
(* STATE *)

NoSync == [status |-> "none", to_line |-> 0, to_col |-> 0, max_line |-> 0,
           end_line |-> 0, curr_sync |-> None, line |-> 0, col |-> 0,
           content |-> None, kind |-> "struct"]
NoEntry == [mark |-> None, resetBy |-> "none", restarted |-> FALSE,
            again |-> FALSE]
NavCap == MaxFrames + 2

(* hist records what the properties speak about and the code does not keep: *)
(*   op         the handler that is running                                 *)
(*   resetBy    who issued the last command_reset that returned, "none"     *)
(*              once a later sync_buffer_to has started                     *)
(*   restarted  saved_sync is a mark and restart() has replaced the         *)
(*              subprocess since saved_sync was last assigned               *)
(*   idem       the target of the last sync_buffer_to that returned, None   *)
(*              once an edit, buffer switch, reset or restart followed it   *)
(*   entry      mark, resetBy, restarted as the running sync_buffer_to      *)
(*              found them, and whether its target repeats idem             *)
(*   fwd        vim_next_enclosing calls since the last fresh query, or -1  *)
(*   back       vim_prev_enclosing calls since the index was at the         *)
(*              sentinel len(enclosing_types), or -1                        *)
(*   spawnFailed  the last spawn that was attempted failed, and no          *)
(*              vim_restart, vim_add_flags or vim_clear_flags came since    *)
(*   autoRetry  the running handler attempted a spawn in send_command       *)
(*              while spawnFailed                                           *)
Hist0 == [op |-> "none", resetBy |-> "none", restarted |-> FALSE,
          idem |-> None, entry |-> NoEntry, fwd |-> -1, back |-> -1,
          spawnFailed |-> FALSE, autoRetry |-> FALSE]

Init ==
  /\ mainpipe = "none"
  /\ flags = <<>>
  /\ procs = NoProcs
  /\ saved_sync = None
  /\ enclosing_types = <<>>
  /\ current_enclosing = -1
  /\ bufnr = 1
  /\ buflen = [b \in Bufs |-> IF b = 1 THEN MaxLines ELSE 1]
  /\ tick = [b \in Bufs |-> 0]
  /\ pc = "idle"
  /\ stack = <<>>
  /\ sync = NoSync
  /\ log = <<>>
  /\ last = NoExchange
  /\ out = Returned(None)
  /\ emitted = <<>>
  /\ hist = Hist0

(* History after an exchange that may have respawned the subprocess *)
AfterSend(h, x) ==
  LET h1 == IF x.restarted
              THEN [h EXCEPT !.restarted = saved_sync # None, !.idem = None]
              ELSE h
  IN [h1 EXCEPT !.autoRetry = @ \/ (h.spawnFailed /\ x.spawn # "none"),
                !.spawnFailed = IF x.spawn = "none" THEN @
                                ELSE x.spawn = "failed"]

(* sync_buffer_to, lines 172-179 and 189: the locals, and the branch taken. *)
(* The target is the cursor the top frame holds.                           *)
EnterSync(stk, h) ==
  LET f == Top(stk)
      max_line == buflen[bufnr]
  IN /\ sync' = [status |-> "running", to_line |-> f.line, to_col |-> f.col,
                 max_line |-> max_line, end_line |-> Min(f.line, max_line),
                 curr_sync |-> Token(bufnr, tick[bufnr]), line |-> 0, col |-> 0,
                 content |-> None, kind |-> "struct"]
     /\ pc' = IF saved_sync # None /\ saved_sync.bufnr = bufnr
                THEN "seek181" ELSE "reset190"
     /\ log' = <<>>
     /\ hist' = [h EXCEPT !.entry = [mark |-> saved_sync,
                                     resetBy |-> h.resetBy,
                                     restarted |-> h.restarted,
                                     again |-> h.idem = Position(f.line, f.col)],
                          !.resetBy = "none", !.idem = None]

(* Control moves on as `cont` says; sy, lg, h are the sync locals, the log *)
(* and the history the step leaves.                                        *)
Go(cont, sy, lg, h) ==
  /\ stack' = cont.stack
  /\ emitted' = emitted \o cont.print
  /\ out' = cont.out
  /\ IF cont.go = "sync"
       THEN EnterSync(cont.stack, h)
       ELSE /\ pc' = cont.go
            /\ sync' = sy
            /\ log' = lg
            /\ hist' = h

----------------------------------------------------------------------------
(* BUFFER SYNCHRONIZATION: sync_buffer_to, one step per command *)

ToLines == {0, 1, MaxLines}
MaxRounds == 3

EndRounds(lg) ==
  Cardinality({i \in 1 .. Len(lg) :
                 lg[i].name = "tell" /\ lg[i].kind = "end"})

(* The exception leaves sync_buffer_to *)
SyncRaise(exc, lg, h) ==
  Go(Propagate(stack, exc, <<>>), [sync EXCEPT !.status = "raised"], lg, h)

(* Lines 184 and 191: content = cb[:end_line] *)
FullContent(sy) == Slice(0, sy.end_line, sy.max_line)

(* DeltaContent without content.insert(0, rest) of line 188 *)
DeltaContentNoRest(sy, line, col) == Slice(line, sy.end_line, sy.max_line)

(* Lines 186-188: the rest of line `line` from `col`, then cb[line:end_line] *)
DeltaContent(sy, line, col) == Lines(line, col, Max(line, sy.end_line))

(* Lines 192-195: the mark is set, then the feed starts if there is content *)
StartFeed(sy, content) ==
  /\ saved_sync' = sy.curr_sync
  /\ sync' = [sy EXCEPT !.content = content, !.kind = "struct"]
  /\ pc' = IF NonEmpty(content) THEN "tell196" ELSE "exact205"

(* Lines 180-182: seek before the position of the mark *)
SeekBefore ==
  /\ pc = "seek181"
  /\ \E spawnOK \in SpawnInputs, result \in Responses("seek") :
       LET x == send_command(mainpipe, procs, flags, spawnOK, result)
           o == command_seek(x.out)
           lg == Logged(log, x, Cmd("seek", "before", saved_sync))
           h == AfterSend(hist, x)
       IN /\ mainpipe' = x.mainpipe
          /\ procs' = x.procs
          /\ last' = Exchange(x, result)
          /\ IF o.kind # "return"
               THEN SyncRaise(o, lg, h) /\ UNCHANGED saved_sync
             ELSE IF o.value.line <= 1
               THEN /\ pc' = "reset183"
                    /\ log' = lg
                    /\ hist' = h
                    /\ UNCHANGED << saved_sync, sync, stack, out, emitted >>
             ELSE IF o.value.line > sync.max_line
               \* cb[line-1] is out of range: IndexError
               THEN SyncRaise(Raised("PyError", None), lg, h)
                    /\ UNCHANGED saved_sync
             ELSE /\ StartFeed([sync EXCEPT !.line = o.value.line,
                                             !.col = o.value.col],
                                DeltaContent(sync, o.value.line, o.value.col))
                  /\ log' = lg
                  /\ hist' = [h EXCEPT !.restarted = FALSE]
                  /\ UNCHANGED << stack, out, emitted >>
  /\ UNCHANGED << flags, enclosing_types, current_enclosing, bufnr, buflen, tick >>

(* Lines 183-184 and 190-191: command_reset, then the whole buffer *)
Reset ==
  /\ pc \in {"reset183", "reset190"}
  /\ \E spawnOK \in SpawnInputs, result \in Responses("reset") :
       LET x == send_command(mainpipe, procs, flags, spawnOK, result)
           lg == Logged(log, x, Cmd("reset", "name", None))
           h == AfterSend(hist, x)
       IN /\ mainpipe' = x.mainpipe
          /\ procs' = x.procs
          /\ last' = Exchange(x, result)
          /\ IF x.out.kind # "return"
               THEN SyncRaise(x.out, lg, h)
                    /\ saved_sync' = command_reset(saved_sync, x.out)
               ELSE /\ StartFeed(sync, FullContent(sync))
                    /\ log' = lg
                    /\ hist' = [h EXCEPT !.resetBy = "sync",
                                         !.restarted = FALSE]
                    /\ UNCHANGED << stack, out, emitted >>
  /\ UNCHANGED << flags, enclosing_types, current_enclosing, bufnr, buflen, tick >>

(* Lines 197-203: the answer was falsy, the next thing to tell *)
NextChunk(sy) ==
  IF sy.end_line < sy.max_line
    THEN LET next_end == Min(sy.max_line, sy.end_line + Window)
         IN [sy EXCEPT !.kind = "end",
                       !.content = Slice(sy.end_line, next_end, sy.max_line),
                       !.end_line = next_end]
    ELSE [sy EXCEPT !.kind = "end", !.content = None]

(* Line 196: one command_tell of the feed loop.  The subprocess answers    *)
(* falsy at most MaxRounds times in one feed.                              *)
Tell ==
  /\ pc = "tell196"
  /\ \E spawnOK \in SpawnInputs, result \in Responses("tell") :
       LET x == send_command(mainpipe, procs, flags, spawnOK, result)
           lg == Logged(log, x, Cmd("tell", sync.kind, sync.content))
           h == AfterSend(hist, x)
       IN /\ mainpipe' = x.mainpipe
          /\ procs' = x.procs
          /\ last' = Exchange(x, result)
          /\ IF x.out.kind # "return"
               THEN SyncRaise(x.out, lg, h)
             ELSE IF Truthy(x.out.value)
               THEN /\ pc' = "exact205"
                    /\ log' = lg
                    /\ hist' = h
                    /\ UNCHANGED << sync, stack, out, emitted >>
             ELSE /\ EndRounds(log) < MaxRounds
                  /\ pc' = "tell196"
                  /\ sync' = NextChunk(sync)
                  /\ log' = lg
                  /\ hist' = h
                  /\ UNCHANGED << stack, out, emitted >>
  /\ UNCHANGED << flags, saved_sync, enclosing_types, current_enclosing,
                  bufnr, buflen, tick >>

(* Line 205: command_seek_exact(to_line, to_col), then the call returns *)
SeekExact ==
  /\ pc = "exact205"
  /\ \E spawnOK \in SpawnInputs, result \in Responses("exact") :
       LET x == send_command(mainpipe, procs, flags, spawnOK, result)
           o == command_seek(x.out)
           lg == Logged(log, x, Cmd("seek", "exact",
                                    Position(sync.to_line, sync.to_col)))
           h == AfterSend(hist, x)
       IN /\ mainpipe' = x.mainpipe
          /\ procs' = x.procs
          /\ last' = Exchange(x, result)
          /\ IF o.kind # "return"
               THEN SyncRaise(o, lg, h)
               ELSE /\ pc' = "return206"
                    /\ sync' = [sync EXCEPT !.status = "returned"]
                    /\ log' = lg
                    /\ hist' = [h EXCEPT !.idem = Position(sync.to_line,
                                                          sync.to_col)]
                    /\ UNCHANGED << stack, out, emitted >>
  /\ UNCHANGED << flags, saved_sync, enclosing_types, current_enclosing,
                  bufnr, buflen, tick >>

(* sync_buffer_to returns to its caller; its locals are gone *)
SyncReturn ==
  /\ pc = "return206"
  /\ Go(Return(stack, <<>>), NoSync, <<>>, [hist EXCEPT !.entry = NoEntry])
  /\ UNCHANGED << mainpipe, procs, flags, saved_sync, enclosing_types,
                  current_enclosing, bufnr, buflen, tick, last >>

----------------------------------------------------------------------------
(* HANDLERS that start with a sync *)

(* vim.current.window.cursor: the start of the buffer, or the last column *)
(* of its last line                                                       *)
Cursors == {<<1, 0>>, <<buflen[bufnr], MaxCol>>}

Begin(op, f) ==
  /\ pc = "idle"
  /\ stack' = <<f>>
  /\ EnterSync(<<f>>, [hist EXCEPT !.op = op, !.entry = NoEntry])
  /\ UNCHANGED << mainpipe, procs, flags, saved_sync, bufnr, buflen, tick, last, out,
                  emitted >>

(* sync_buffer_to(to_line, to_col) called with any target *)
sync_buffer_to ==
  \E l \in ToLines, c \in Cols :
    /\ Begin("sync_buffer_to", Frame("sync_buffer_to", 172, FALSE, FALSE, l, c))
    /\ UNCHANGED << enclosing_types, current_enclosing >>

(* vim_reload_buffer: sync_buffer(), the target is the cursor *)
vim_reload_buffer ==
  \E cur \in Cursors :
    /\ Begin("vim_reload_buffer",
             Frame("vim_reload_buffer", 357, FALSE, FALSE, cur[1], cur[2]))
    /\ UNCHANGED << enclosing_types, current_enclosing >>

(* vim_type(expr) called from the editor *)
vim_type ==
  \E cur \in Cursors, expr \in BOOLEAN :
    /\ Begin("vim_type", Frame("vim_type", 271, expr, FALSE, cur[1], cur[2]))
    /\ UNCHANGED << enclosing_types, current_enclosing >>

(* vim_type_enclosing without lines 292-293 *)
vim_type_enclosing_no_reset ==
  \E cur \in Cursors, expr \in BOOLEAN :
    /\ pc = "idle"
    /\ stack' = << Frame("vim_type_enclosing", 295, expr, FALSE,
                         cur[1], cur[2]) >>
    /\ EnterSync(stack', [hist EXCEPT !.op = "vim_type_enclosing",
                                      !.entry = NoEntry,
                                      !.fwd = -1, !.back = -1])
    /\ UNCHANGED << mainpipe, procs, flags, saved_sync, bufnr, buflen, tick,
                    last, out, emitted, enclosing_types, current_enclosing >>

(* vim_type_enclosing, lines 292-295 *)
vim_type_enclosing ==
  \E cur \in Cursors, expr \in BOOLEAN :
    /\ pc = "idle"
    /\ enclosing_types' = <<>>
    /\ current_enclosing' = -1
    /\ stack' = << Frame("vim_type_enclosing", 295, expr, FALSE,
                         cur[1], cur[2]) >>
    /\ EnterSync(stack', [hist EXCEPT !.op = "vim_type_enclosing",
                                      !.entry = NoEntry,
                                      !.fwd = -1, !.back = -1])
    /\ UNCHANGED << mainpipe, procs, flags, saved_sync, bufnr, buflen, tick, last, out,
                    emitted >>

(* vim_type_enclosing, lines 297-304: the query and what follows it *)
Query297 ==
  /\ pc = "query297"
  /\ \E spawnOK \in SpawnInputs, result \in Responses("enclosing") :
       LET x == send_command(mainpipe, procs, flags, spawnOK, result)
           f == Top(stack)
           lg == Logged(log, x, Cmd("type", "enclosing",
                                    Position(f.line, f.col)))
           h == AfterSend(hist, x)
       IN /\ mainpipe' = x.mainpipe
          /\ procs' = x.procs
          /\ last' = Exchange(x, result)
          /\ IF x.out.kind # "return"
               THEN /\ Go(Propagate(stack, x.out, <<>>), sync, lg, h)
                    /\ UNCHANGED << enclosing_types, current_enclosing >>
             ELSE IF x.out.value.t # "enclosing"
               \* result[1] of None: TypeError
               THEN /\ Go(Propagate(stack, Raised("PyError", None), <<>>),
                          sync, lg, h)
                    /\ UNCHANGED << enclosing_types, current_enclosing >>
             ELSE IF result_1(x.out.value) = <<>>
               THEN /\ enclosing_types' = <<>>
                    /\ UNCHANGED current_enclosing
                    /\ Go(Cont("sync",
                               Pop(stack) \o << At(f, 300),
                                 Frame("vim_type", 271, f.expr, TRUE,
                                       f.line, f.col) >>,
                               out, <<>>),
                          sync, lg, h)
             ELSE LET n == vim_next_enclosing(result_1(x.out.value),
                                              current_enclosing)
                  IN /\ enclosing_types' = result_1(x.out.value)
                     /\ current_enclosing' = n.cur
                     /\ Go(Return(Pop(stack), n.emit), sync, lg,
                           [h EXCEPT !.fwd = 0,
                                     !.back = IF n.cur = Len(enclosing_types')
                                                THEN 0 ELSE -1])
  /\ UNCHANGED << flags, saved_sync, bufnr, buflen, tick >>

(* vim_type, lines 273-286: the type command, the print or the fallback *)
Type275 ==
  /\ pc = "type275"
  /\ \E spawnOK \in SpawnInputs, result \in Responses("type") :
       LET x == send_command(mainpipe, procs, flags, spawnOK, result)
           f == Top(stack)
           lg == Logged(log, x, Cmd("type", IF f.expr THEN "expression" ELSE "at",
                                    Position(f.line, f.col)))
           h == AfterSend(hist, x)
       IN /\ mainpipe' = x.mainpipe
          /\ procs' = x.procs
          /\ last' = Exchange(x, result)
          /\ IF x.out.kind # "return"
               THEN Go(Propagate(stack, x.out, <<>>), sync, lg, h)
             ELSE IF f.expr /\ x.out.value.t # "str"
               \* expr + " : " + ty raises TypeError after "(approx) " is out
               THEN Go(Propagate(stack, Raised("PyError", None),
                                 IF f.approx
                                   THEN <<Emit("write", -1, "", TRUE)>>
                                   ELSE <<>>),
                       sync, lg, h)
             ELSE Go(Return(Pop(stack),
                            <<Emit("type", -1, IF f.expr THEN "expr" ELSE "",
                                   f.approx)>>),
                     sync, lg, h)
  /\ UNCHANGED << flags, saved_sync, enclosing_types, current_enclosing,
                  bufnr, buflen, tick >>

----------------------------------------------------------------------------
(* HANDLERS that run in one step *)

Bump(n) == IF n < 0 THEN -1 ELSE Min(n + 1, NavCap)

(* The handler ends: nothing of the sync state is touched *)
EndOp(op, o, pr, lg, h) ==
  /\ pc' = "done"
  /\ out' = o
  /\ emitted' = pr
  /\ log' = lg
  /\ hist' = [h EXCEPT !.op = op, !.entry = NoEntry]
  /\ UNCHANGED << stack, sync >>

vim_next_enclosing_cmd ==
  /\ pc = "idle"
  /\ LET n == vim_next_enclosing(enclosing_types, current_enclosing)
     IN /\ current_enclosing' = n.cur
        /\ EndOp("vim_next_enclosing", Returned(None), n.emit, <<>>,
                 [hist EXCEPT !.fwd = Bump(hist.fwd),
                              !.back = IF n.cur = Len(enclosing_types)
                                         THEN 0 ELSE -1])
  /\ UNCHANGED << mainpipe, procs, flags, saved_sync, enclosing_types,
                  bufnr, buflen, tick, last >>

vim_prev_enclosing_cmd ==
  /\ pc = "idle"
  /\ LET n == vim_prev_enclosing(enclosing_types, current_enclosing)
     IN /\ current_enclosing' = n.cur
        /\ EndOp("vim_prev_enclosing", Returned(None), n.emit, <<>>,
                 [hist EXCEPT !.fwd = -1, !.back = Bump(hist.back)])
  /\ UNCHANGED << mainpipe, procs, flags, saved_sync, enclosing_types,
                  bufnr, buflen, tick, last >>

(* restart() as the three handlers call it *)
Restarting(op, fl) ==
  /\ pc = "idle"
  /\ \E os \in RestartInputs :
       LET r == restart(mainpipe, procs, fl, os)
       IN /\ mainpipe' = r.mainpipe
          /\ procs' = r.procs
          /\ EndOp(op,
                   IF r.raised THEN Raised("OSError", None) ELSE Returned(None),
                   <<>>, <<>>,
                   IF r.raised THEN [hist EXCEPT !.spawnFailed = TRUE]
                   ELSE [hist EXCEPT !.restarted = saved_sync # None,
                                     !.idem = None, !.spawnFailed = FALSE])
  /\ UNCHANGED << saved_sync, enclosing_types, current_enclosing,
                  bufnr, buflen, tick, last >>

vim_restart ==
  /\ UNCHANGED flags
  /\ Restarting("vim_restart", flags)

(* flags.extend(args) with one argument, then restart() *)
vim_add_flags ==
  /\ Len(flags) < MaxFlags
  /\ flags' = Append(flags, "-flag")
  /\ Restarting("vim_add_flags", flags')

vim_clear_flags ==
  /\ flags' = <<>>
  /\ Restarting("vim_clear_flags", flags')

(* command_reset() called on its own *)
reset_direct ==
  /\ pc = "idle"
  /\ \E spawnOK \in SpawnInputs, result \in Responses("reset") :
       LET x == send_command(mainpipe, procs, flags, spawnOK, result)
           h == AfterSend(hist, x)
       IN /\ mainpipe' = x.mainpipe
          /\ procs' = x.procs
          /\ last' = Exchange(x, result)
          /\ saved_sync' = command_reset(saved_sync, x.out)
          /\ EndOp("command_reset", x.out, <<>>,
                   Logged(<<>>, x, Cmd("reset", "", None)),
                   IF x.out.kind = "return"
                     THEN [h EXCEPT !.resetBy = "direct", !.idem = None,
                                    !.restarted = FALSE]
                     ELSE h)
  /\ UNCHANGED << flags, enclosing_types, current_enclosing, bufnr, buflen, tick >>

(* load_project when the .merlin file exists: line 441 *)
load_project ==
  /\ pc = "idle"
  /\ \E spawnOK \in SpawnInputs, result \in Responses("project") :
       LET x == send_command(mainpipe, procs, flags, spawnOK, result)
           h == [AfterSend(hist, x) EXCEPT !.op = "load_project",
                                           !.entry = NoEntry]
           lg == Logged(<<>>, x, Cmd("project", "load", None))
           f == Frame("load_project", 441, FALSE, FALSE, 0, 0)
       IN /\ mainpipe' = x.mainpipe
          /\ procs' = x.procs
          /\ last' = Exchange(x, result)
          /\ IF x.out.kind # "return"
               THEN Go(Propagate(<<f>>, x.out, <<>>), sync, lg, h)
               ELSE Go(Return(<<f>>, <<>>), sync, lg, h)
  /\ UNCHANGED << flags, saved_sync, enclosing_types, current_enclosing,
                  bufnr, buflen, tick >>

(* load_project, line 443: command_reset() *)
Reset443 ==
  /\ pc = "reset443"
  /\ \E spawnOK \in SpawnInputs, result \in Responses("reset") :
       LET x == send_command(mainpipe, procs, flags, spawnOK, result)
           h == AfterSend(hist, x)
           lg == Logged(log, x, Cmd("reset", "", None))
       IN /\ mainpipe' = x.mainpipe
          /\ procs' = x.procs
          /\ last' = Exchange(x, result)
          /\ saved_sync' = command_reset(saved_sync, x.out)
          /\ IF x.out.kind # "return"
               THEN Go(Propagate(stack, x.out, <<>>), sync, lg, h)
               ELSE Go(Return(Pop(stack), <<>>), sync, lg,
                       [h EXCEPT !.resetBy = "load_project", !.idem = None,
                                 !.restarted = FALSE])
  /\ UNCHANGED << flags, enclosing_types, current_enclosing, bufnr, buflen, tick >>

(* The handler is over: the editor takes the next event *)
Finish ==
  /\ pc = "done"
  /\ pc' = "idle"
  /\ stack' = <<>>
  /\ sync' = NoSync
  /\ log' = <<>>
  /\ last' = NoExchange
  /\ out' = Returned(None)
  /\ emitted' = <<>>
  /\ hist' = [hist EXCEPT !.op = "none", !.entry = NoEntry,
                          !.autoRetry = FALSE]
  /\ UNCHANGED << mainpipe, procs, flags, saved_sync, enclosing_types,
                  current_enclosing, bufnr, buflen, tick >>

----------------------------------------------------------------------------
(* THE EDITOR *)

Edit ==
  /\ pc = "idle"
  /\ tick[1] + tick[2] < MaxTick
  /\ tick' = [tick EXCEPT ![bufnr] = @ + 1]
  /\ hist' = [hist EXCEPT !.idem = None]
  /\ UNCHANGED << mainpipe, procs, flags, saved_sync, enclosing_types,
                  current_enclosing, bufnr, buflen, pc, stack, sync, log,
                  last, out, emitted >>

SwitchBuffer ==
  /\ pc = "idle"
  /\ \E b \in Bufs \ {bufnr} : bufnr' = b
  /\ hist' = [hist EXCEPT !.idem = None]
  /\ UNCHANGED << mainpipe, procs, flags, saved_sync, enclosing_types,
                  current_enclosing, buflen, tick, pc, stack, sync, log,
                  last, out, emitted >>

----------------------------------------------------------------------------

Next ==
  \/ sync_buffer_to
  \/ vim_reload_buffer
  \/ vim_type
  \/ vim_type_enclosing
  \/ vim_next_enclosing_cmd
  \/ vim_prev_enclosing_cmd
  \/ vim_restart
  \/ vim_add_flags
  \/ vim_clear_flags
  \/ reset_direct
  \/ load_project
  \/ SeekBefore
  \/ Reset
  \/ Tell
  \/ SeekExact
  \/ SyncReturn
  \/ Query297
  \/ Type275
  \/ Reset443
  \/ Finish
  \/ Edit
  \/ SwitchBuffer

Spec == Init /\ [][Next]_vars

(* The synchronization handlers alone: the steppers and the type queries   *)
(* are left out (they reach saved_sync only through sync_buffer_to)        *)
NextSync ==
  \/ sync_buffer_to
  \/ vim_reload_buffer
  \/ vim_restart
  \/ reset_direct
  \/ load_project
  \/ SeekBefore
  \/ Reset
  \/ Tell
  \/ SeekExact
  \/ SyncReturn
  \/ Reset443
  \/ Finish
  \/ Edit
  \/ SwitchBuffer

SpecSync == Init /\ [][NextSync]_vars

(* The type queries and the steppers alone, on one unchanged buffer *)
NextNav ==
  \/ vim_type_enclosing
  \/ vim_next_enclosing_cmd
  \/ vim_prev_enclosing_cmd
  \/ vim_type
  \/ SeekBefore
  \/ Reset
  \/ Tell
  \/ SeekExact
  \/ SyncReturn
  \/ Query297
  \/ Type275
  \/ Finish

SpecNav == Init /\ [][NextNav]_vars

(* The process supervisor: the handlers that restart the subprocess and    *)
(* the ones that send one or two commands to it                            *)
NextProc ==
  \/ vim_restart
  \/ vim_add_flags
  \/ vim_clear_flags
  \/ reset_direct
  \/ load_project
  \/ Reset443
  \/ Finish

SpecProc == Init /\ [][NextProc]_vars

----------------------------------------------------------------------------
(* PROPERTIES *)

InSync == sync.status # "none"
HasCmd(lg, name, kind) ==
  \E i \in 1 .. Len(lg) : lg[i].name = name /\ lg[i].kind = kind
HasTell(lg) == \E i \in 1 .. Len(lg) : lg[i].name = "tell"
HasReset(lg) == \E i \in 1 .. Len(lg) : lg[i].name = "reset"
Tells(lg) == SelectSeq(lg, LAMBDA c : c.name = "tell")
Done(op) == pc = "done" /\ hist.op = op
CeilDiv(a, b) == (a + b - 1) \div b

(* C1: the feed loop sends, after its one "struct" tell, at most           *)
(* ceil((max_line - end_line)/20) + 1 "end" tells, end_line being          *)
(* min(to_line, max_line) at the start of the feed, whatever the           *)
(* subprocess answers.                                                     *)
C1_FeedBound ==
  InSync =>
    EndRounds(log) <=
      CeilDiv(sync.max_line - Min(sync.to_line, sync.max_line), Window) + 1

(* C2 as claimed: a sync_buffer_to that repeats the target of the call     *)
(* before it, nothing having happened in between, writes no tell.          *)
C2_SecondSyncSendsNothing ==
  (InSync /\ hist.entry.again) => ~HasTell(log)

(* C2 as amended: the repeated call keeps the mark (same buffer, same      *)
(* token), starts with seek before at the mark, and when it returns it has *)
(* sent a tell again, except when the target line is below 1 and the seek  *)
(* led to a reset.                                                         *)
C2_SecondSyncResends ==
  (InSync /\ hist.entry.again) =>
    /\ hist.entry.mark # None
    /\ hist.entry.mark.bufnr = bufnr
    /\ saved_sync = hist.entry.mark
    /\ sync.curr_sync = hist.entry.mark
    /\ log # <<>> => log[1] = Cmd("seek", "before", hist.entry.mark)
    /\ sync.status = "returned" =>
         /\ HasTell(log) <=> ~(sync.to_line < 1 /\ HasReset(log))
         /\ HasTell(log) => Tells(log)[1].kind = "struct"
         /\ (HasTell(log) /\ ~HasReset(log)) =>
              /\ Tells(log)[1].arg.t = "lines"
              /\ Tells(log)[1].arg.line > 1

C2_Witness ==
  /\ InSync /\ hist.entry.again
  /\ sync.status = "returned"
  /\ ~HasReset(log)
  /\ Len(Tells(log)) = 1

(* C3 as claimed: after a command_reset that returned, whoever issued it,  *)
(* the next sync_buffer_to finds no mark, issues no seek before and starts *)
(* with a reset.                                                           *)
C3_AnyResetForcesFullResend ==
  (InSync /\ hist.entry.resetBy # "none") =>
    /\ hist.entry.mark = None
    /\ ~HasCmd(log, "seek", "before")
    /\ log # <<>> => log[1].name = "reset"

(* C3 as amended: a command_reset that returns leaves saved_sync none; when *)
(* load_project or a direct call issued it, the next sync_buffer_to finds  *)
(* no mark, issues no seek before, writes a reset first and, once that     *)
(* reset returned, tells the buffer from line 1 to the target line.        *)
C3_ResetInvalidates ==
  /\ (pc = "done" /\ hist.op \in {"command_reset", "load_project"}
        /\ out.kind = "return") => saved_sync = None
  /\ hist.resetBy \in {"direct", "load_project"} => saved_sync = None
  /\ (InSync /\ hist.entry.resetBy \in {"direct", "load_project"}) =>
       /\ hist.entry.mark = None
       /\ pc # "seek181"
       /\ ~HasCmd(log, "seek", "before")
       /\ log # <<>> => log[1].name = "reset"
       /\ HasTell(log) =>
            /\ Tells(log)[1].kind = "struct"
            /\ Tells(log)[1].arg =
                 Lines(1, 0, Min(sync.to_line, sync.max_line))
       /\ (sync.status = "returned" /\ sync.to_line >= 1) => HasTell(log)

C3_Witness ==
  /\ InSync /\ hist.entry.resetBy = "load_project"
  /\ sync.status = "returned"
  /\ HasTell(log)
  /\ sync.to_line = 1

(* C4: when restart() has replaced the subprocess after the mark was       *)
(* saved, the next sync_buffer_to does not feed a delta computed from that *)
(* mark: whenever it gets to feed, it has issued a reset and feeds from    *)
(* line 1.                                                                 *)
C4_NoContinuityAcrossRestart ==
  (InSync /\ hist.entry.restarted /\ pc \in {"tell196", "exact205", "return206"})
    => /\ HasReset(log)
       /\ HasTell(log) => Tells(log)[1].arg.line = 1

N == Len(enclosing_types)
FrameAt(i) == <<Emit("frame", i, enclosing_types[i + 1], FALSE)>>

(* C5 as claimed: from the sentinel N of a sequence of N >= 1 frames, the  *)
(* N-th vim_prev_enclosing in a row leaves current_enclosing at -1 and     *)
(* emits nothing.                                                          *)
C5_BackwardInNSteps ==
  (Done("vim_prev_enclosing") /\ N >= 1 /\ hist.back = N) =>
    /\ current_enclosing = -1
    /\ emitted = <<>>

(* C5 as amended: from the sentinel N, k <= N calls of vim_prev_enclosing  *)
(* in a row leave the index at N - k, the k-th emitting frame N - k; the   *)
(* (N+1)-th call is the one that reaches -1 and emits nothing.             *)
C5_BackwardInNPlus1Steps ==
  (N >= 1 /\ hist.back >= 0) =>
    /\ hist.back <= N => current_enclosing = N - hist.back
    /\ hist.back > N => current_enclosing = -1
    /\ (Done("vim_prev_enclosing") /\ hist.back \in 1 .. N) =>
         emitted = FrameAt(N - hist.back)
    /\ (Done("vim_prev_enclosing") /\ hist.back > N) => emitted = <<>>

C5_Witness ==
  /\ Done("vim_prev_enclosing")
  /\ N = MaxFrames
  /\ hist.back = N + 1
  /\ current_enclosing = -1
  /\ emitted = <<>>

(* C6: after a fresh successful vim_type_enclosing on N >= 1 frames, k <= N *)
(* calls of vim_next_enclosing in a row leave the index at k; the N-th     *)
(* lands on the sentinel N and emits nothing, and further calls stay at N  *)
(* and emit nothing.                                                       *)
C6_ForwardBound ==
  (N >= 1 /\ hist.fwd >= 0) =>
    /\ hist.fwd <= N => current_enclosing = hist.fwd
    /\ hist.fwd >= N => current_enclosing = N
    /\ (Done("vim_next_enclosing") /\ hist.fwd >= N) => emitted = <<>>
    /\ (Done("vim_next_enclosing") /\ hist.fwd \in 1 .. N - 1) =>
         emitted = FrameAt(hist.fwd)

C6_Witness ==
  /\ Done("vim_next_enclosing")
  /\ N = MaxFrames
  /\ hist.fwd = N
  /\ current_enclosing = N
  /\ emitted = <<>>

(* C7: current_enclosing is always in -1 .. N, N the length of             *)
(* enclosing_types, and every frame a handler emits is the one at an index *)
(* in 0 .. N-1.                                                            *)
C7_NavigatorRange ==
  /\ current_enclosing \in -1 .. N
  /\ \A i \in 1 .. Len(emitted) :
       emitted[i].what = "frame" =>
         /\ emitted[i].idx \in 0 .. N - 1
         /\ emitted[i].text = enclosing_types[emitted[i].idx + 1]

C7_Witness ==
  /\ Done("vim_prev_enclosing")
  /\ N = MaxFrames
  /\ emitted = FrameAt(N - 1)
  /\ hist.back = 1

Expected(result) ==
  [kind |-> CASE result[1] = "return" -> "return"
              [] result[1] = "failure" -> "Failure"
              [] result[1] = "error" -> "Error"
              [] result[1] = "exception" -> "MerlinException",
   value |-> IF Len(result) = 2 THEN result[2] ELSE None]

(* C8: a response whose tag is none of the four ends send_command in an    *)
(* error: it never returns a value to the caller.                          *)
C8_UnknownTagIsFatal ==
  (last.result # <<>> /\ last.result[1] \notin Tags) =>
    last.out.kind # "return"

(* C9: for each of the four tags send_command returns (return) or raises   *)
(* (failure: Failure, error: Error, exception: MerlinException) with the   *)
(* payload of the response, None for a 1-element response; the caller of   *)
(* command_reset gets that outcome, and a value only for "return".         *)
C9_OutcomeDiscrimination ==
  (last.result # <<>> /\ last.result[1] \in Tags) =>
    /\ last.out = Expected(last.result)
    /\ last.out.kind = "return" <=> last.result[1] = "return"
    /\ Done("command_reset") => out = Expected(last.result)

C9_Witness ==
  /\ Done("command_reset")
  /\ last.result = <<"error">>
  /\ out = Raised("Error", None)

(* C10: when a tell of sync_buffer_to ends in Failure, Error or            *)
(* MerlinException, the aborted call leaves saved_sync as it found it, or  *)
(* none: not at the token it computed.                                     *)
C10_MarkOnlyAfterSuccessfulSend ==
  (sync.status = "raised" /\ log # <<>> /\ log[Len(log)].name = "tell"
     /\ last.out.kind \in MerlinExc) =>
    saved_sync \in {hist.entry.mark, None}

(* C11: after a spawn failure, no send_command attempts a spawn until      *)
(* vim_restart, vim_add_flags or vim_clear_flags is called; and the        *)
(* send_command whose spawn fails writes no command and raises.            *)
C11_NoAutomaticRetry ==
  /\ ~hist.autoRetry
  /\ last.spawn = "failed" =>
       (last.result = <<>> /\ last.out = Raised("OSError", None))

C15_LaunchedWithCurrentFlags ==
  /\ mainpipe = "running" => procs.args = flags
  /\ last.result # <<>> => (mainpipe = "running" /\ last.by = flags)

C15_Witness ==
  /\ Done("command_reset")
  /\ flags # <<>>
  /\ last.result # <<>>
  /\ last.by = flags
  /\ last.spawn = "none"

(* The tells of the log that carry buffer lines *)
LineTells(lg) ==
  SelectSeq(lg, LAMBDA c : c.name = "tell" /\ c.arg.t = "lines")

(* C13: within one sync_buffer_to no buffer line is sent in two tells, and *)
(* when the call feeds the delta after the Position (line, col) that seek  *)
(* before returned, no tell carries text before that Position.             *)
C13_NoResend ==
  InSync =>
    LET ts == LineTells(log)
    IN /\ \A i, j \in 1 .. Len(ts) :
            i < j => ts[i].arg.last < ts[j].arg.line
       /\ sync.line > 1 =>
            \A i \in 1 .. Len(ts) :
              \/ ts[i].arg.line > sync.line
              \/ ts[i].arg.line = sync.line /\ ts[i].arg.col >= sync.col

LastCmd == log[Len(log)]

(* C14: when vim_type_enclosing fell back to the direct type query and     *)
(* that query ended in Failure, Error or MerlinException, the handler      *)
(* printed the error marked "(approx)".                                    *)
C14_FailureMarkedApprox ==
  (Done("vim_type_enclosing") /\ log # <<>> /\ LastCmd.name = "type"
     /\ LastCmd.kind # "enclosing" /\ last.out.kind \in MerlinExc) =>
    \E i \in 1 .. Len(emitted) :
      emitted[i].what = "error" /\ emitted[i].approx

Steppers == {"vim_next_enclosing", "vim_prev_enclosing"}

(* C16: a call of vim_next_enclosing or vim_prev_enclosing made while      *)
(* enclosing_types is empty leaves current_enclosing and enclosing_types   *)
(* as they were and prints and highlights nothing.                         *)
C16_EmptyNoOp ==
  [][(pc = "idle" /\ pc' = "done" /\ hist'.op \in Steppers
        /\ enclosing_types = <<>>) =>
       /\ current_enclosing' = current_enclosing
       /\ enclosing_types' = enclosing_types
       /\ emitted' = <<>>]_vars

C16_Witness ==
  /\ Done("vim_next_enclosing")
  /\ enclosing_types = <<>>
  /\ current_enclosing = -1
  /\ emitted = <<>>
  /\ mainpipe = "running"

(* C17: once end_line has reached max_line and a tell is answered falsy,   *)
(* sync_buffer_to sends no further tell: the content of every tell is      *)
(* buffer text, and no tell follows the one that was sent with end_line at *)
(* max_line.                                                               *)
C17_StopsAtEndOfBuffer ==
  InSync =>
    /\ \A i \in 1 .. Len(log) : log[i].name = "tell" => log[i].arg # None
    /\ pc = "tell196" => sync.content # None

Rank(c) ==
  CASE c.name = "seek" /\ c.kind = "before" -> 1
    [] c.name = "reset" -> 2
    [] c.name = "tell" /\ c.kind = "struct" -> 3
    [] c.name = "tell" /\ c.kind = "end" -> 4
    [] c.name = "seek" /\ c.kind = "exact" -> 5
    [] OTHER -> 0

(* C18: a sync_buffer_to that returns has written, in this order, at most  *)
(* one seek before, at most one reset, at most one tell struct followed by *)
(* tell end only, and one seek exact at (to_line, to_col) as its last      *)
(* command; saved_sync is the token of this call; and when the content was *)
(* empty (nothing to feed after the reset) no tell was written.            *)
C18_CommandOrder ==
  sync.status = "returned" =>
    /\ log # <<>>
    /\ LastCmd = Cmd("seek", "exact", Position(sync.to_line, sync.to_col))
    /\ \A i \in 1 .. Len(log) : Rank(log[i]) > 0
    /\ \A i, j \in 1 .. Len(log) :
         i < j => /\ Rank(log[i]) <= Rank(log[j])
                  /\ Rank(log[i]) = Rank(log[j]) => Rank(log[i]) = 4
    /\ HasCmd(log, "tell", "end") => HasCmd(log, "tell", "struct")
    /\ saved_sync = sync.curr_sync
    /\ sync.curr_sync = Token(bufnr, tick[bufnr])
    /\ (HasReset(log) /\ Min(sync.to_line, sync.max_line) < 1) => ~HasTell(log)

C18_Witness ==
  /\ sync.status = "returned"
  /\ sync.to_line = 0
  /\ hist.entry.mark # None
  /\ Len(log) = 3
  /\ ~HasTell(log)
  /\ saved_sync = sync.curr_sync
  /\ saved_sync # hist.entry.mark

(* C19: when type enclosing returns a nonempty list, vim_type_enclosing    *)
(* ends with enclosing_types that list, in the order of the answer,        *)
(* current_enclosing = 0, and exactly frame 0 printed and highlighted.     *)
C19_FreshQuery ==
  (Done("vim_type_enclosing") /\ log # <<>> /\ LastCmd.kind = "enclosing"
     /\ last.out.kind = "return" /\ last.out.value.t = "enclosing"
     /\ last.out.value.frames # <<>>) =>
    /\ enclosing_types = last.out.value.frames
    /\ current_enclosing = 0
    /\ emitted = <<Emit("frame", 0, last.out.value.frames[1], FALSE)>>
    /\ out = Returned(None)

C19_Witness ==
  /\ Done("vim_type_enclosing")
  /\ last.out = Returned(Enclosing(<<2, 1>>))
  /\ enclosing_types = <<2, 1>>
  /\ current_enclosing = 0
  /\ emitted = <<Emit("frame", 0, 2, FALSE)>>

(* C20: a vim_type_enclosing that did not get a nonempty list (its sync or *)
(* its query raised, or the list was empty) ends with enclosing_types      *)
(* empty and current_enclosing = -1 and has emitted no frame; and while    *)
(* enclosing_types is empty no stepper emits anything.                     *)
C20_NoStaleFrames ==
  /\ (Done("vim_type_enclosing") /\ hist.fwd # 0) =>
       /\ enclosing_types = <<>>
       /\ current_enclosing = -1
       /\ \A i \in 1 .. Len(emitted) : emitted[i].what # "frame"
  /\ (pc = "done" /\ hist.op \in Steppers /\ enclosing_types = <<>>) =>
       emitted = <<>>

C20_Witness ==
  /\ Done("vim_type_enclosing")
  /\ hist.fwd # 0
  /\ last.out.kind = "Failure"
  /\ emitted = <<Emit("error", -1, "Failure", FALSE)>>
  /\ out = Returned(None)
  /\ enclosing_types = <<>>
  /\ current_enclosing = -1

====
